---- MODULE Spec2Model ----
(***************************************************************************)
(* GMLAB ST4, the 4-port switchable MIDI thru box (GMLAB_ST4.ino), as a    *)
(* state machine: one step is one iteration of loop() (read at most one    *)
(* MIDI event and process it fully, then run the button timer and the      *)
(* activity timer), or a power cycle that runs setup() again.              *)
(* GMLAB UP4, the expression pedal (GMLAB_UP4.ino), is a second device     *)
(* with its own state: one step is one iteration of its loop().            *)
(*                                                                         *)
(* The C type char of PortStatus, NoteMemory.Port and the SetPort argument *)
(* is modelled by its 8-bit pattern 0..255: the code only applies ^, & and *)
(* >> by 0..3 followed by & 1 to it, which read and write the same bits    *)
(* whether char is signed or not.                                          *)
(***************************************************************************)
EXTENDS Integers, Sequences, FiniteSets, TLC

(***************************************************************************)
(* Program constants                                                       *)
(***************************************************************************)
MIDI_STATUS_NOTEOFF == 128
MIDI_STATUS_NOTEON == 144
MIDI_STATUS_AFTERTOUCH == 160
MIDI_STATUS_CONTROLCHANGE == 176
MIDI_STATUS_PROGRAMCHANGE == 192
MIDI_STATUS_CHANNELPRESSURE == 208
MIDI_STATUS_PITCHBEND == 224
SUSTAIN_CC == 64
LOW == 0
HIGH == 1
NumButtons == 4

(***************************************************************************)
(* Bounds of the model                                                     *)
(***************************************************************************)
\* number of distinct note numbers the environment plays
NumNotes == 1
\* how many Note-Ons for a note that is already held are followed per note
MaxRetrig == 1

FirstNote == 60
NumChannels == 16
Notes == FirstNote..(FirstNote + NumNotes - 1)
AllChans == 1..NumChannels
\* the channels whose sustain entries are followed: the first and the last
Chans == {1, NumChannels}
Buttons == 0..(NumButtons - 1)
\* bytes the non-volatile store may hold at first boot: a saved mask, and the
\* value of an erased cell
InitBytes == {0, 255}
\* data bytes the environment uses: both sides of the sustain threshold
DataVals == {0, 63, 64, 127}

(***************************************************************************)
(* Bit operations on bytes                                                 *)
(***************************************************************************)
Pow2(i) == CASE i = 0 -> 1 [] i = 1 -> 2 [] i = 2 -> 4 [] i = 3 -> 8
             [] i = 4 -> 16 [] i = 5 -> 32 [] i = 6 -> 64 [] i = 7 -> 128

\* (x >> i) & 1
Bit(x, i) == (x \div Pow2(i)) % 2

\* x ^ (1 << i)
XorBit(x, i) == IF Bit(x, i) = 1 THEN x - Pow2(i) ELSE x + Pow2(i)

RECURSIVE BitOrFrom(_, _, _)
BitOrFrom(a, b, i) ==
    IF i > 7 THEN 0
    ELSE (IF Bit(a, i) = 1 \/ Bit(b, i) = 1 THEN Pow2(i) ELSE 0)
         + BitOrFrom(a, b, i + 1)

\* a | b on bytes
BitOr(a, b) == BitOrFrom(a, b, 0)

(***************************************************************************)
(* State                                                                   *)
(***************************************************************************)
VARIABLES
    PortStatus,     \* the mask the operator selected
    USBPort,        \* the USB-mirror flag
    ButtonStatus,   \* last level read per button
    NoteMem,        \* per note: Status, Port
    SustainPedal,   \* per channel-1, for the channels of Chans: Status, Port
    eeprom,         \* the byte at address 8 of the non-volatile store
    MuxPins,        \* the four select lines
    ButtonLeds,     \* the four status LEDs
    led0,           \* the power/activity LED
    ActivityTimer,  \* TRUE while the one-shot timer runs
    ev,             \* the event read by this iteration of loop(), or NoEvent
    setPortArg,     \* the arguments of the SetPort calls of this iteration
    serialOut,      \* the calls made on the serial MIDI output in this iteration
    usbOut,         \* the packets handed to MidiUSB in this iteration
    hNote,          \* history per note, see HistNoteOn
    hSus,           \* history per channel, see HistSustain
    hBtn,           \* history of the last button press, see DoButton
    hStep,          \* history: "setup" after setup(), "loop" after loop()
    prev_value,     \* UP4: the pot reading stored at the last emission
    potValue,       \* UP4: the reading of the latest DoPedal() (its local value)
    dip,            \* UP4: Channel, CCselect, CurveSelect read from the switches
    pedalOut        \* UP4: the packets handed to MidiUSB by the latest DoPedal()

st4vars == <<PortStatus, USBPort, ButtonStatus, NoteMem, SustainPedal, eeprom,
             MuxPins, ButtonLeds, led0, ActivityTimer, ev, setPortArg, serialOut,
             usbOut, hNote, hSus, hBtn, hStep>>
up4vars == <<prev_value, potValue, dip, pedalOut>>
vars == <<st4vars, up4vars>>

NoEvent == [type |-> 0, channel |-> 0, data1 |-> 0, data2 |-> 0]
NoMask == 0 - 1

Event(t, c, d1, d2) == [type |-> t, channel |-> c, data1 |-> d1, data2 |-> d2]

(***************************************************************************)
(* Port multiplexer and USB output                                         *)
(***************************************************************************)
\* SetPort: USBPort = port & 1
SetPortUSB(port) == port % 2

\* SetPort: digitalWrite(MuxPins[i], (port >> i) & 1) for i = 0..3
SetPortMux(port) == [i \in Buttons |-> Bit(port, i)]

\* faulty variant: the test of USBPort is missing
UsbMidiSendUngated(usb, b1, b2, b3) ==
    LET Status == b1 - (b1 % 16)
        Channel == ((b1 % 16) + 255) % 256
    IN  << [header |-> Status \div 16, byte1 |-> BitOr(Status, Channel),
            byte2 |-> b2, byte3 |-> b3] >>

\* UsbMidiSend with the global USBPort it reads: no packet, or the packet
\* {Status >> 4, Status | Channel, b2, b3}, all on 8-bit bytes
UsbMidiSend(usb, b1, b2, b3) ==
    IF usb = 0 THEN << >>
    ELSE LET Status == b1 - (b1 % 16)
             Channel == ((b1 % 16) + 255) % 256
         IN  << [header |-> Status \div 16, byte1 |-> BitOr(Status, Channel),
                 byte2 |-> b2, byte3 |-> b3] >>

\* SetPort(port), then one call on the serial output, then UsbMidiSend
Route(port, call, b1, b2, b3) ==
    /\ setPortArg' = <<port>>
    /\ USBPort' = SetPortUSB(port)
    /\ MuxPins' = SetPortMux(port)
    /\ serialOut' = <<call>>
    /\ usbOut' = UsbMidiSend(USBPort', b1, b2, b3)

\* faulty variant: the select lines follow the mask when nothing is routed
NoRouteFollowsMask ==
    /\ setPortArg' = << >>
    /\ serialOut' = << >>
    /\ usbOut' = << >>
    /\ USBPort' = SetPortUSB(PortStatus)
    /\ MuxPins' = SetPortMux(PortStatus)

\* an iteration that calls neither SetPort nor any output
NoRoute ==
    /\ setPortArg' = << >>
    /\ serialOut' = << >>
    /\ usbOut' = << >>
    /\ UNCHANGED <<USBPort, MuxPins>>

(***************************************************************************)
(* History variables (not program state): what the environment did         *)
(***************************************************************************)
\* per note: mask = PortStatus when the latest Note-On was read, held = the
\* latest event for the note was a Note-On, retrig = Note-Ons read while held,
\* owed = Note-Ons forwarded minus Note-Offs forwarded with the mask the
\* latest forwarded Note-On was routed with, chan = the channel of the latest
\* Note-On if it is one of the followed channels Chans (NoMask otherwise)
HistNoteOn(n) ==
    hNote' = [hNote EXCEPT ![n] =
        [mask |-> PortStatus, held |-> TRUE,
         chan |-> IF ev'.channel \in Chans THEN ev'.channel ELSE NoMask,
         retrig |-> IF @.held THEN @.retrig + 1 ELSE @.retrig,
         owed |-> IF serialOut' # << >> /\ serialOut'[1][1] = "sendNoteOn"
                  THEN @.owed + 1 ELSE @.owed,
         routed |-> IF setPortArg' # << >> THEN setPortArg'[1] ELSE NoMask]]

HistNoteOff(n) ==
    hNote' = [hNote EXCEPT ![n] =
        [mask |-> @.mask, held |-> FALSE, chan |-> @.chan, retrig |-> @.retrig,
         owed |-> IF /\ serialOut' # << >>
                     /\ serialOut'[1][1] = "sendNoteOff"
                     /\ setPortArg' = <<@.routed>>
                  THEN @.owed - 1 ELSE @.owed,
         routed |-> @.routed]]

\* per channel: mask = PortStatus when the latest CC#64 press was read (NoMask
\* before the first), held = the latest CC#64 event of the channel was a press
HistSustain(c, pressed) ==
    hSus' = [hSus EXCEPT ![c] =
        [mask |-> IF pressed THEN PortStatus ELSE @.mask, held |-> pressed]]

(***************************************************************************)
(* loop(): the switch on MIDI.getType()                                    *)
(***************************************************************************)
\* faulty variant: the entry is marked active but the mask is not captured
NoteOnEntryNoPort == [Status |-> 1, Port |-> 0]

\* case MIDI_STATUS_NOTEON: the entry written for the note
NoteOnEntry == [Status |-> 1, Port |-> PortStatus]

NoteOn(e) ==
    /\ NoteMem' = [NoteMem EXCEPT ![e.data1] = NoteOnEntry]
    /\ Route(PortStatus, <<"sendNoteOn", e.data1, e.data2, e.channel>>,
             BitOr(MIDI_STATUS_NOTEON, e.channel), e.data1, e.data2)
    /\ HistNoteOn(e.data1)
    /\ UNCHANGED <<SustainPedal, hSus>>

\* faulty variant: the Note-Off is forwarded without the test
NoteWasOnAlways(n) == TRUE

\* faulty variant: the entry is honoured for the channel of its Note-On only
NoteWasOnSameChannel(n) == NoteMem[n].Status # 0 /\ hNote[n].chan = ev'.channel

\* case MIDI_STATUS_NOTEOFF: the test NoteMem[..].Status
NoteWasOn(n) == NoteMem[n].Status # 0

\* faulty variant: the Note-Off follows the live selection
NoteOffPortLive(n) == PortStatus

\* the port the Note-Off is routed with
NoteOffPort(n) == NoteMem[n].Port

NoteOff(e) ==
    /\ IF NoteWasOn(e.data1)
       THEN /\ NoteMem' = [NoteMem EXCEPT ![e.data1].Status = 0]
            /\ Route(NoteOffPort(e.data1),
                     <<"sendNoteOff", e.data1, e.data2, e.channel>>,
                     BitOr(MIDI_STATUS_NOTEOFF, e.channel), e.data1, e.data2)
       ELSE /\ UNCHANGED NoteMem
            /\ NoRoute
    /\ HistNoteOff(e.data1)
    /\ UNCHANGED <<SustainPedal, hSus>>

\* case MIDI_STATUS_CONTROLCHANGE, getData1() == 64, getData2() > 63
SustainOnEntry == [Status |-> 1, Port |-> PortStatus]

SustainOn(e) ==
    /\ SustainPedal' = [SustainPedal EXCEPT ![e.channel - 1] = SustainOnEntry]
    /\ Route(PortStatus, <<"sendControlChange", SUSTAIN_CC, 127, e.channel>>,
             BitOr(MIDI_STATUS_CONTROLCHANGE, e.channel), SUSTAIN_CC, 127)
    /\ HistSustain(e.channel, TRUE)
    /\ UNCHANGED <<NoteMem, hNote>>

\* faulty variant: the release follows the live selection
SustainOffPortLive(c) == PortStatus

\* the port the sustain release is routed with
SustainOffPort(c) == SustainPedal[c - 1].Port

\* case MIDI_STATUS_CONTROLCHANGE, getData1() == 64, getData2() <= 63: there
\* is no test of SustainPedal[..].Status
SustainOff(e) ==
    /\ SustainPedal' = [SustainPedal EXCEPT ![e.channel - 1].Status = 0]
    /\ Route(SustainOffPort(e.channel),
             <<"sendControlChange", SUSTAIN_CC, 0, e.channel>>,
             BitOr(MIDI_STATUS_CONTROLCHANGE, e.channel), SUSTAIN_CC, 0)
    /\ HistSustain(e.channel, FALSE)
    /\ UNCHANGED <<NoteMem, hNote>>

\* faulty variant: SetPort is given what the select lines already hold
GenericPortStale ==
    MuxPins[0] + 2 * MuxPins[1] + 4 * MuxPins[2] + 8 * MuxPins[3]

\* the port of the events that have no memory
GenericPort == PortStatus

\* case MIDI_STATUS_CONTROLCHANGE, any other controller
ControlChange(e) ==
    /\ Route(GenericPort,
             <<"sendControlChange", e.data1, e.data2, e.channel>>,
             BitOr(MIDI_STATUS_CONTROLCHANGE, e.channel), e.data1, e.data2)
    /\ UNCHANGED <<NoteMem, SustainPedal, hNote, hSus>>

ProgramChange(e) ==
    /\ Route(GenericPort, <<"sendProgramChange", e.data1, e.channel>>,
             BitOr(MIDI_STATUS_PROGRAMCHANGE, e.channel), e.data1, e.data2)
    /\ UNCHANGED <<NoteMem, SustainPedal, hNote, hSus>>

ChannelPressure(e) ==
    /\ Route(GenericPort, <<"sendAfterTouch", e.data1, e.channel>>,
             BitOr(MIDI_STATUS_CHANNELPRESSURE, e.channel), e.data1, e.data2)
    /\ UNCHANGED <<NoteMem, SustainPedal, hNote, hSus>>

\* the value of a 16-bit int (two's complement) after an operation gave x
Int16(x) == ((x + 32768) % 65536) - 32768

\* faulty variant: the high byte is shifted by 8
PitchBendValueShift8(d1, d2) == Int16(Int16(d1 + Int16(d2 * 256)) - 8192)

\* getData1() + (getData2() << 7) - 8192, each operation in 16-bit int
PitchBendValue(d1, d2) == Int16(Int16(d1 + Int16(d2 * 128)) - 8192)

PitchBend(e) ==
    /\ Route(GenericPort,
             <<"sendPitchBend", PitchBendValue(e.data1, e.data2), e.channel>>,
             BitOr(MIDI_STATUS_PITCHBEND, e.channel), e.data1, e.data2)
    /\ UNCHANGED <<NoteMem, SustainPedal, hNote, hSus>>

\* faulty variant: polyphonic aftertouch is forwarded like channel pressure
UnrecognizedForwarded(e) ==
    /\ Route(PortStatus, <<"sendAfterTouch", e.data1, e.channel>>,
             BitOr(e.type, e.channel), e.data1, e.data2)
    /\ UNCHANGED <<NoteMem, SustainPedal, hNote, hSus>>

\* a type with no case in the switch
Unrecognized(e) ==
    /\ NoRoute
    /\ UNCHANGED <<NoteMem, SustainPedal, hNote, hSus>>

\* if (MIDI.read()) { ... }: the activity LED, then the switch
Process(e) ==
    /\ ev' = e
    /\ led0' = LOW
    /\ ActivityTimer' = TRUE
    /\ CASE e.type = MIDI_STATUS_NOTEON -> NoteOn(e)
         [] e.type = MIDI_STATUS_NOTEOFF -> NoteOff(e)
         [] e.type = MIDI_STATUS_CONTROLCHANGE /\ e.data1 = SUSTAIN_CC /\ e.data2 > 63
              -> SustainOn(e)
         [] e.type = MIDI_STATUS_CONTROLCHANGE /\ e.data1 = SUSTAIN_CC /\ e.data2 <= 63
              -> SustainOff(e)
         [] e.type = MIDI_STATUS_CONTROLCHANGE /\ e.data1 # SUSTAIN_CC
              -> ControlChange(e)
         [] e.type = MIDI_STATUS_PROGRAMCHANGE -> ProgramChange(e)
         [] e.type = MIDI_STATUS_CHANNELPRESSURE -> ChannelPressure(e)
         [] e.type = MIDI_STATUS_PITCHBEND -> PitchBend(e)
         [] OTHER -> Unrecognized(e)

\* faulty variant: the handler writes the level of the event branch
ActivityLedLow == LOW

\* ActivityLed(): the level written to PIN_LED0
ActivityLed == HIGH

\* MIDI.read() returned false; ActivityTimer.run() fires ActivityLed when the
\* one-shot timer is running and its 10 ms have passed (expired)
NoRead(expired) ==
    /\ ev' = NoEvent
    /\ NoRoute
    /\ IF ActivityTimer /\ expired
       THEN led0' = ActivityLed /\ ActivityTimer' = FALSE
       ELSE UNCHANGED <<led0, ActivityTimer>>
    /\ UNCHANGED <<NoteMem, SustainPedal, hNote, hSus>>

(***************************************************************************)
(* Buttons                                                                 *)
(***************************************************************************)
\* faulty variant: the bit is set, not toggled
SwitchPortsSet(port, pin) == IF Bit(port, pin) = 1 THEN port ELSE port + Pow2(pin)

\* SwitchPorts(pin): PortStatus ^= 1 << pin
SwitchPorts(port, pin) == XorBit(port, pin)

\* faulty variant: the new mask is not written
EepromUpdateSkipped(old, port) == old

\* what DoButton leaves in the non-volatile store: EEPROM.update(8, PortStatus)
EepromUpdate(old, port) == port

\* faulty variant: the LED shows the bit as it was before the press
LedLevelBefore(port, pin) == 1 - Bit(port, pin)

\* SwitchPorts(pin): digitalWrite(ButtonLeds[pin], (PortStatus >> pin) & 1)
LedLevel(port, pin) == Bit(port, pin)

\* faulty variant: the mask is toggled on every change of level
DoButtonAnyEdge(s, btn, status) ==
    IF s.status[btn] = status THEN s
    ELSE LET port == SwitchPorts(s.port, btn)
         IN  [s EXCEPT !.port = port, !.status[btn] = status,
                       !.leds[btn] = LedLevel(port, btn),
                       !.rom = EepromUpdate(s.rom, port)]

\* DoButton(btn, status) on the button state s = [port, status, leds, rom, hist].
\* hist (not program state) records the button of the latest press, whether
\* it was the first or the second of two presses of that button with no press
\* of another button in between (n), and the mask before the first of them.
DoButton(s, btn, status) ==
    IF s.status[btn] = status THEN s
    ELSE IF status # LOW THEN [s EXCEPT !.status[btn] = status]
    ELSE LET port == SwitchPorts(s.port, btn)
         IN  [port |-> port,
              status |-> [s.status EXCEPT ![btn] = status],
              leds |-> [s.leds EXCEPT ![btn] = LedLevel(port, btn)],
              rom |-> EepromUpdate(s.rom, port),
              hist |-> IF s.hist.btn = btn /\ s.hist.n = 1
                       THEN [s.hist EXCEPT !.n = 2]
                       ELSE [btn |-> btn, mask |-> s.port, n |-> 1]]

RECURSIVE CheckButtonsFrom(_, _, _)
CheckButtonsFrom(s, levels, i) ==
    IF i >= NumButtons THEN s
    ELSE CheckButtonsFrom(DoButton(s, i, levels[i]), levels, i + 1)

\* CheckButtons(): DoButton(i, digitalRead(ButtonPins[i])) for i = 0..3
CheckButtons(s, levels) == CheckButtonsFrom(s, levels, 0)

AllReleased == [i \in Buttons |-> HIGH]

\* the levels digitalRead can return in one poll when only the buttons of the
\* set used are operated
Levels(used) == {l \in [Buttons -> {LOW, HIGH}] :
                   \A i \in Buttons : i \notin used => l[i] = HIGH}

\* ButtonTimer.run(): calls CheckButtons when its 5 ms have passed (due).
\* The history of the presses is kept when watch is set.
ButtonTimerRun(due, levels, watch) ==
    IF due
    THEN LET s == CheckButtons([port |-> PortStatus, status |-> ButtonStatus,
                                leds |-> ButtonLeds, rom |-> eeprom,
                                hist |-> hBtn], levels)
         IN  /\ PortStatus' = s.port
             /\ ButtonStatus' = s.status
             /\ ButtonLeds' = s.leds
             /\ eeprom' = s.rom
             /\ hBtn' = IF watch THEN s.hist ELSE hBtn
    ELSE UNCHANGED <<PortStatus, ButtonStatus, ButtonLeds, eeprom, hBtn>>

RunButtons(used, watch) ==
    \E due \in BOOLEAN :
        \E levels \in (IF due THEN Levels(used) ELSE {AllReleased}) :
            ButtonTimerRun(due, levels, watch)

(***************************************************************************)
(* GMLAB UP4: the expression pedal                                         *)
(***************************************************************************)
DEADBAND == 8

\* byte ExpCurve[128]; the C element ExpCurve[i] is ExpCurve[i + 1] here
ExpCurve == <<
    0, 0, 1, 1, 2, 2, 2, 3, 3, 4, 4, 5, 5, 5, 6, 6,
    7, 7, 7, 8, 8, 9, 9, 10, 10, 10, 11, 11, 12, 12, 12, 13,
    13, 14, 14, 15, 15, 15, 16, 16, 17, 17, 17, 18, 19, 19, 20, 20,
    21, 21, 22, 22, 23, 23, 24, 24, 25, 25, 26, 26, 27, 27, 28, 28,
    29, 29, 30, 30, 31, 31, 32, 32, 33, 33, 34, 34, 35, 35, 36, 36,
    37, 38, 39, 41, 42, 43, 44, 46, 47, 48, 49, 51, 52, 53, 54, 56,
    57, 58, 59, 61, 62, 63, 64, 66, 67, 68, 69, 73, 76, 79, 81, 84,
    87, 89, 92, 95, 98, 100, 103, 106, 108, 111, 114, 116, 119, 122, 124, 127 >>

\* byte CCnumber[4]; the C element CCnumber[i] is CCnumber[i + 1] here
CCnumber == <<11, 4, 2, 7>>

\* before the first call of DoPedal() there is no reading
NoReading == 0 - 1

\* the readings of the 10-bit converter the environment produces: one per
\* 7-bit value, and readings 7, 9 and 17 counts away from them, and the top
PotVals == {8 * k : k \in 0..127} \cup {7, 9, 17, 1023}
\* the switch settings the environment uses
DipChannels == {15}
DipCCs == {3}
Curves == 0..3

Abs(x) == IF x < 0 THEN 0 - x ELSE x

\* faulty variant: a difference of DEADBAND counts already passes
PedalMovedAtLeast(value, prev) == Abs(Int16(value - prev)) >= DEADBAND

\* DoPedal: diff = abs(value - prev_value); the test that lets the call go on
PedalMoved(value, prev) == ~(Abs(Int16(value - prev)) <= DEADBAND)

\* byte val7bit = value >> 3
Val7bit(value) == (value \div 8) % 256

\* the switch on CurveSelect, the result stored in a byte
CurveValue(curve, val7bit) ==
    CASE curve = 0 -> val7bit
      [] curve = 1 -> ExpCurve[val7bit + 1]
      [] curve = 2 -> (127 - val7bit) % 256
      [] curve = 3 -> (127 - ExpCurve[val7bit + 1]) % 256

\* UsbMidiSend of the pedal: the packet {Status >> 4, Status | Channel, b2, b3}
PedalUsbMidiSend(b1, b2, b3) ==
    LET Status == b1 - (b1 % 16)
        Chan == b1 % 16
    IN  << [header |-> Status \div 16, byte1 |-> BitOr(Status, Chan),
            byte2 |-> b2, byte3 |-> b3] >>

\* DoPedal() when analogRead returns value, with the switches as loop() read them
DoPedal(value) ==
    /\ potValue' = value
    /\ IF ~PedalMoved(value, prev_value)
       THEN /\ pedalOut' = << >>
            /\ UNCHANGED prev_value
       ELSE /\ prev_value' = value
            /\ pedalOut' = PedalUsbMidiSend(
                   BitOr(MIDI_STATUS_CONTROLCHANGE, dip'.Channel),
                   CCnumber[dip'.CCselect + 1],
                   CurveValue(dip'.CurveSelect, Val7bit(value)))

\* the globals of the pedal after its setup()
PedalInit ==
    /\ prev_value = 0 - 1
    /\ potValue = NoReading
    /\ dip = [Channel |-> 0, CCselect |-> 0, CurveSelect |-> 0]
    /\ pedalOut = << >>

\* loop() of the pedal: read the switches, then DoPedal()
PedalLoop ==
    /\ \E c \in DipChannels, s \in DipCCs, k \in Curves :
          dip' = [Channel |-> c, CCselect |-> s, CurveSelect |-> k]
    /\ \E value \in PotVals : DoPedal(value)
    /\ UNCHANGED st4vars

\* the pedal loses power and starts again
PedalPowerCycle ==
    /\ prev_value' = 0 - 1
    /\ potValue' = NoReading
    /\ dip' = [Channel |-> 0, CCselect |-> 0, CurveSelect |-> 0]
    /\ pedalOut' = << >>
    /\ UNCHANGED st4vars

PedalNext == PedalLoop \/ PedalPowerCycle

(***************************************************************************)
(* setup()                                                                 *)
(***************************************************************************)
\* PortStatus = EEPROM.read(8)
RestoredPort(byte) == byte

NoPress == [btn |-> NoMask, mask |-> NoMask, n |-> 0]

InitOver(bytes) ==
    \E byte \in bytes :
        /\ eeprom = byte
        /\ PortStatus = RestoredPort(byte)
        /\ USBPort = 0
        /\ ButtonStatus = AllReleased
        /\ NoteMem = [n \in Notes |-> [Status |-> 0, Port |-> 0]]
        /\ SustainPedal = [c \in {ch - 1 : ch \in Chans} |-> [Status |-> 0, Port |-> 0]]
        /\ MuxPins = [i \in Buttons |-> LOW]
        /\ ButtonLeds = [i \in Buttons |-> Bit(PortStatus, i)]
        /\ led0 = ActivityLed
        /\ ActivityTimer = FALSE
        /\ ev = NoEvent
        /\ setPortArg = << >>
        /\ serialOut = << >>
        /\ usbOut = << >>
        /\ hNote = [n \in Notes |-> [mask |-> NoMask, held |-> FALSE, chan |-> NoMask, retrig |-> 0,
                                     owed |-> 0, routed |-> NoMask]]
        /\ hSus = [c \in Chans |-> [mask |-> NoMask, held |-> FALSE]]
        /\ hBtn = NoPress
        /\ hStep = "setup"
        /\ PedalInit

\* power is lost between two iterations of loop() and setup() runs again
PowerCycle ==
    /\ eeprom' = eeprom
    /\ PortStatus' = RestoredPort(eeprom)
    /\ USBPort' = 0
    /\ ButtonStatus' = AllReleased
    /\ NoteMem' = [n \in Notes |-> [Status |-> 0, Port |-> 0]]
    /\ SustainPedal' = [c \in {ch - 1 : ch \in Chans} |-> [Status |-> 0, Port |-> 0]]
    /\ MuxPins' = [i \in Buttons |-> LOW]
    /\ ButtonLeds' = [i \in Buttons |-> Bit(PortStatus', i)]
    /\ led0' = ActivityLed
    /\ ActivityTimer' = FALSE
    /\ ev' = NoEvent
    /\ setPortArg' = << >>
    /\ serialOut' = << >>
    /\ usbOut' = << >>
    /\ hNote' = [n \in Notes |-> [mask |-> NoMask, held |-> FALSE, chan |-> NoMask, retrig |-> 0,
                                  owed |-> 0, routed |-> NoMask]]
    /\ hSus' = [c \in Chans |-> [mask |-> NoMask, held |-> FALSE]]
    /\ hBtn' = NoPress
    /\ hStep' = "setup"
    /\ UNCHANGED up4vars

(***************************************************************************)
(* The environment and loop()                                              *)
(***************************************************************************)
\* the velocities and the generic controller numbers the environment uses
Velocities == {100}
GenericCCs == {7}

NoteEventsOf(notes, chans) ==
    {Event(t, c, n, v) :
       t \in {MIDI_STATUS_NOTEON, MIDI_STATUS_NOTEOFF}, c \in chans, n \in notes,
       v \in Velocities}
SustainEventsOf(chans) ==
    {Event(MIDI_STATUS_CONTROLCHANGE, c, SUSTAIN_CC, d2) : c \in chans, d2 \in DataVals}
\* generic Control-Change, Program-Change, Channel-Pressure and Pitch-Bend
GenericEventsOf(chans, data) ==
    {Event(MIDI_STATUS_CONTROLCHANGE, c, d1, d2) :
       c \in chans, d1 \in GenericCCs, d2 \in data}
    \cup {Event(t, c, d1, 0) :
            t \in {MIDI_STATUS_PROGRAMCHANGE, MIDI_STATUS_CHANNELPRESSURE},
            c \in chans, d1 \in data}
    \cup {Event(MIDI_STATUS_PITCHBEND, c, d1, d2) : c \in chans, d1 \in data, d2 \in data}
\* polyphonic aftertouch: a type the switch has no case for
OtherEvents == {Event(MIDI_STATUS_AFTERTOUCH, 1, FirstNote, v) : v \in Velocities}

Events == NoteEventsOf(Notes, AllChans) \cup SustainEventsOf(Chans)
            \cup GenericEventsOf(AllChans, DataVals) \cup OtherEvents

\* the bound on the Note-Ons followed for a note that is already held
Followed(e) ==
    (e.type = MIDI_STATUS_NOTEON /\ hNote[e.data1].held)
        => hNote[e.data1].retrig < MaxRetrig

\* loop() when MIDI.read() returns an event of the set events
LoopEvent(events, used, watch) ==
    /\ \E e \in events : Followed(e) /\ Process(e) /\ RunButtons(used, watch)
    /\ hStep' = "loop"
    /\ UNCHANGED up4vars

\* loop() when MIDI.read() returns nothing
LoopIdle(used, watch) ==
    /\ \E expired \in BOOLEAN : NoRead(expired) /\ RunButtons(used, watch)
    /\ hStep' = "loop"
    /\ UNCHANGED up4vars

NextOver(events, used, watch) ==
    LoopEvent(events, used, watch) \/ LoopIdle(used, watch) \/ PowerCycle

Init == InitOver(InitBytes)
Next == NextOver(Events, Buttons, TRUE) \/ PedalNext
Spec == Init /\ [][Next]_vars

\* The whole input space is too large to enumerate; each specification below
\* runs the same loop() on a part of it. The history of the button presses is
\* kept in SpecButtons only.

\* the note memory: Note-On and Note-Off of every note of Notes on the first
\* channel, buttons 0 and 1
SpecNotes ==
    InitOver({0}) /\ [][NextOver(NoteEventsOf(Notes, {1}), {0, 1}, FALSE)]_vars

\* the sustain memory: CC#64 on the first and the last channel, one note,
\* button 0
SpecSustain ==
    InitOver({0})
    /\ [][NextOver(SustainEventsOf(Chans) \cup NoteEventsOf({FirstNote}, {1}),
                   {0}, FALSE)]_vars

\* routing: every event type, the events without memory on the first and the
\* last channel, button 0
SpecRoute ==
    InitOver({0})
    /\ [][NextOver(NoteEventsOf({FirstNote}, {1}) \cup SustainEventsOf({1})
                     \cup GenericEventsOf(Chans, {0, 127}) \cup OtherEvents,
                   {0}, FALSE)]_vars

\* the USB packet: every event type on every channel, button 0
SpecUsb ==
    InitOver({1})
    /\ [][NextOver(NoteEventsOf({FirstNote}, AllChans)
                     \cup GenericEventsOf(AllChans, {127}), {0}, FALSE)]_vars

\* the buttons and the non-volatile store: all four buttons, any byte in the
\* store at first boot, an event that is ignored
SpecButtons ==
    InitOver(InitBytes) /\ [][NextOver(OtherEvents, Buttons, TRUE)]_vars

\* the Pitch-Bend value: every low data byte with the ends and the centre of
\* the high data byte, no button
BendEvents ==
    {Event(MIDI_STATUS_PITCHBEND, 1, d1, d2) : d1 \in 0..127, d2 \in {0, 63, 64, 127}}
SpecBend ==
    InitOver({1}) /\ [][NextOver(BendEvents, {}, FALSE)]_vars

\* the note memory across channels: one note on the first and the last
\* channel, button 0
SpecChannels ==
    InitOver({0}) /\ [][NextOver(NoteEventsOf({FirstNote}, Chans), {0}, FALSE)]_vars

\* the activity LED: one note on the first channel, button 0; the loop keeps
\* running, so a running one-shot timer is eventually found expired
ActivityExpires == NoRead(TRUE) /\ RunButtons({0}, FALSE) /\ hStep' = "loop"
                     /\ UNCHANGED up4vars
SpecActivity ==
    InitOver({0}) /\ [][NextOver(NoteEventsOf({FirstNote}, {1}), {0}, FALSE)]_vars
    /\ WF_vars(ActivityExpires)

\* the expression pedal
SpecPedal == InitOver({0}) /\ [][PedalNext]_vars

(***************************************************************************)
(* Properties                                                              *)
(***************************************************************************)
NoteOffCall(e) == <<"sendNoteOff", e.data1, e.data2, e.channel>>

\* C1: a Note-Off for a note whose latest event was a Note-On read while the
\* mask was M1 is forwarded after SetPort(M1), whatever the mask is now: the
\* select lines and the USB flag are those of M1.
C1_NoteOffRoutedWithCapturedMask ==
    [][\A n \in Notes :
          (ev'.type = MIDI_STATUS_NOTEOFF /\ ev'.data1 = n /\ hNote[n].held)
          => /\ setPortArg' = <<hNote[n].mask>>
             /\ MuxPins' = [i \in Buttons |-> Bit(hNote[n].mask, i)]
             /\ USBPort' = Bit(hNote[n].mask, 0)
             /\ serialOut' = <<NoteOffCall(ev')>>]_vars

\* C1 witness: the scenario of the specification: Note-On at mask 0001, the
\* mask is 0010 and the buttons are released again when the Note-Off has been
\* forwarded, on both outputs, after SetPort(0001).
C1_Witness ==
    /\ ev.type = MIDI_STATUS_NOTEOFF
    /\ hNote[ev.data1].mask = 1
    /\ PortStatus = 2
    /\ ButtonStatus = AllReleased
    /\ setPortArg = <<1>>
    /\ ev.channel = 1
    /\ serialOut = <<NoteOffCall(ev)>>
    /\ usbOut = << [header |-> 8, byte1 |-> MIDI_STATUS_NOTEOFF,
                    byte2 |-> ev.data1, byte3 |-> ev.data2] >>

\* C2: a Note-Off read while the entry of its note is not active (no Note-On
\* for the note since boot, or none since its latest Note-Off) calls neither
\* SetPort nor any output.
C2_UnmatchedNoteOffDropped ==
    [][\A n \in Notes :
          (/\ ev'.type = MIDI_STATUS_NOTEOFF
           /\ ev'.data1 = n
           /\ (NoteMem[n].Status = 0 \/ ~hNote[n].held))
          => (serialOut' = << >> /\ usbOut' = << >> /\ setPortArg' = << >>)]_vars

\* C2 witness: a Note-Off that was dropped although the USB flag is set and
\* the note was played before.
C2_Witness ==
    /\ ev.type = MIDI_STATUS_NOTEOFF
    /\ hNote[ev.data1].mask # NoMask
    /\ USBPort = 1
    /\ serialOut = << >>
    /\ usbOut = << >>

\* C3: whenever the latest event of a note is a Note-Off (every Note-On of the
\* note has been followed by a Note-Off), every forwarded Note-On of the note
\* has been matched by a forwarded Note-Off routed with the same mask: none
\* is owed.
C3_EveryNoteOnMatched ==
    \A n \in Notes : ~hNote[n].held => hNote[n].owed = 0

\* What the code does instead: the Note-Ons left without a Note-Off are
\* exactly those that were followed by another Note-On of the same note
\* before a Note-Off.
NoteAccounting ==
    \A n \in Notes :
        hNote[n].owed = hNote[n].retrig + (IF hNote[n].held THEN 1 ELSE 0)

IsSustain(e) == e.type = MIDI_STATUS_CONTROLCHANGE /\ e.data1 = SUSTAIN_CC
IsNote(e) == e.type \in {MIDI_STATUS_NOTEON, MIDI_STATUS_NOTEOFF}

\* C4: a CC#64 release on a channel that had a CC#64 press is forwarded after
\* SetPort(the mask at the latest press of that channel), whatever the mask
\* is now; a CC#64 event leaves the note entries and the sustain entries of
\* the other channels unchanged, and a note event leaves every sustain entry
\* unchanged.
C4_SustainReleaseRoutedWithCapturedMask ==
    [][/\ \A c \in Chans :
            (IsSustain(ev') /\ ev'.channel = c /\ ev'.data2 < 64
               /\ hSus[c].mask # NoMask)
            => /\ setPortArg' = <<hSus[c].mask>>
               /\ MuxPins' = [i \in Buttons |-> Bit(hSus[c].mask, i)]
               /\ serialOut' = << <<"sendControlChange", SUSTAIN_CC, 0, c>> >>
       /\ \A c \in Chans :
            (IsSustain(ev') /\ ev'.channel = c)
            => /\ NoteMem' = NoteMem
               /\ \A d \in Chans \ {c} : SustainPedal'[d - 1] = SustainPedal[d - 1]
       /\ IsNote(ev') => SustainPedal' = SustainPedal]_vars

\* C4 witness: a release on channel 1 routed with mask 1, captured at its
\* press, when the mask is 0 and the button is released again, while the
\* pedal of channel 16 and a note are held.
C4_Witness ==
    /\ IsSustain(ev) /\ ev.channel = 1 /\ ev.data2 < 64
    /\ hSus[1].mask = 1
    /\ PortStatus = 0
    /\ ButtonStatus = AllReleased
    /\ setPortArg = <<1>>
    /\ SustainPedal[NumChannels - 1].Status = 1
    /\ NoteMem[FirstNote].Status = 1

\* C5: a CC#64 release read while the sustain entry of its channel is not
\* active produces nothing on either output.
C5_UnmatchedSustainReleaseDropped ==
    [][\A c \in Chans :
          (IsSustain(ev') /\ ev'.channel = c /\ ev'.data2 < 64
             /\ SustainPedal[c - 1].Status = 0)
          => (serialOut' = << >> /\ usbOut' = << >>)]_vars

\* C6: in every iteration of loop(), an event is forwarded exactly when
\* SetPort is called; the serial output then gets one call, and the USB output
\* gets one packet if bit 0 of the SetPort argument is 1 and none otherwise.
C6_UsbGatedByBitZero ==
    /\ setPortArg = << >> => (serialOut = << >> /\ usbOut = << >>)
    /\ setPortArg # << >>
         => /\ Len(setPortArg) = 1
            /\ Len(serialOut) = 1
            /\ Len(usbOut) = (IF Bit(setPortArg[1], 0) = 1 THEN 1 ELSE 0)

\* C6 witness: a Note-Off forwarded with its captured mask 0 while bit 0 of
\* the live mask is 1: the serial output got it, the USB output did not.
C6_Witness ==
    /\ ev.type = MIDI_STATUS_NOTEOFF
    /\ ButtonStatus = AllReleased
    /\ PortStatus = 1
    /\ setPortArg = <<0>>
    /\ Len(serialOut) = 1
    /\ usbOut = << >>

\* C7: the packet handed to the USB output has the status type of the event
\* read in its high nibble and the channel minus one in its low nibble.
C7_UsbStatusByte ==
    usbOut # << >>
        => /\ usbOut[1].byte1 \div 16 = ev.type \div 16
           /\ usbOut[1].byte1 % 16 = ev.channel - 1

\* What the code does: C7 on the channels 1..15 only.
UsbStatusByteBelow16 ==
    (usbOut # << >> /\ ev.channel < NumChannels)
        => /\ usbOut[1].byte1 \div 16 = ev.type \div 16
           /\ usbOut[1].byte1 % 16 = ev.channel - 1
           /\ usbOut[1].header = ev.type \div 16

\* C8: after two presses of the same button with no press of another button
\* in between, the mask is the mask before the first of the two presses, and
\* so is the byte in the non-volatile store.
C8_TwoPressesRestoreMask ==
    hBtn.n = 2 => (PortStatus = hBtn.mask /\ eeprom = hBtn.mask)

\* C8 witness: button 3 pressed twice from the mask 255 of an erased store.
C8_Witness ==
    /\ hBtn = [btn |-> 3, mask |-> 255, n |-> 2]
    /\ PortStatus = 255
    /\ eeprom = 255

\* C9: between two iterations of loop() the byte in the non-volatile store is
\* the mask, and it is the mask setup() would restore.
C9_StoreHoldsMask ==
    /\ eeprom = PortStatus
    /\ RestoredPort(eeprom) = PortStatus

\* C9 witness: after a power cycle (no press recorded since setup()) the mask
\* is one that only button presses can have produced.
C9_Witness ==
    /\ hBtn = NoPress
    /\ PortStatus \notin InitBytes
    /\ eeprom = PortStatus

IsGeneric(e) ==
    \/ e.type = MIDI_STATUS_CONTROLCHANGE /\ e.data1 # SUSTAIN_CC
    \/ e.type \in {MIDI_STATUS_PROGRAMCHANGE, MIDI_STATUS_CHANNELPRESSURE,
                   MIDI_STATUS_PITCHBEND}

\* the call on the serial output that carries the event e unchanged
CarriesUnchanged(call, e) ==
    CASE e.type = MIDI_STATUS_CONTROLCHANGE ->
           call = <<"sendControlChange", e.data1, e.data2, e.channel>>
      [] e.type = MIDI_STATUS_PROGRAMCHANGE ->
           call = <<"sendProgramChange", e.data1, e.channel>>
      [] e.type = MIDI_STATUS_CHANNELPRESSURE ->
           call = <<"sendAfterTouch", e.data1, e.channel>>
      [] e.type = MIDI_STATUS_PITCHBEND ->
           /\ Len(call) = 3
           /\ call[1] = "sendPitchBend"
           /\ (call[2] + 8192) % 128 = e.data1
           /\ (call[2] + 8192) \div 128 = e.data2
           /\ call[3] = e.channel
      [] OTHER -> FALSE

\* C10: a generic Control-Change, Program-Change, Channel-Pressure or
\* Pitch-Bend is forwarded after SetPort(the mask as it is when the event is
\* read), with its data bytes and channel on the serial output and its data
\* bytes in the USB packet, and leaves the note and sustain entries unchanged.
C10_GenericRoutedWithLiveMask ==
    [][IsGeneric(ev')
         => /\ setPortArg' = <<PortStatus>>
            /\ MuxPins' = [i \in Buttons |-> Bit(PortStatus, i)]
            /\ USBPort' = Bit(PortStatus, 0)
            /\ Len(serialOut') = 1
            /\ CarriesUnchanged(serialOut'[1], ev')
            /\ usbOut' # << >>
                 => (usbOut'[1].byte2 = ev'.data1 /\ usbOut'[1].byte3 = ev'.data2)
            /\ NoteMem' = NoteMem
            /\ SustainPedal' = SustainPedal]_vars

\* C10 witness: a Pitch-Bend forwarded with the live mask 1, on both outputs,
\* while a note and the pedal are held with the captured mask 0.
C10_Witness ==
    /\ ev.type = MIDI_STATUS_PITCHBEND
    /\ ButtonStatus = AllReleased
    /\ PortStatus = 1
    /\ setPortArg = <<1>>
    /\ usbOut # << >>
    /\ NoteMem[FirstNote] = [Status |-> 1, Port |-> 0]
    /\ SustainPedal[0] = [Status |-> 1, Port |-> 0]

\* C11: the value passed to sendPitchBend for a Pitch-Bend with the data
\* bytes data1 and data2 is data1 + 128 * data2 - 8192 as computed without any
\* limit of width, it lies in -8192..8191, and it is 0 for data1 = 0x00,
\* data2 = 0x40.
C11_PitchBendValue ==
    ev.type = MIDI_STATUS_PITCHBEND
        => /\ serialOut = << <<"sendPitchBend",
                               ev.data1 + 128 * ev.data2 - 8192, ev.channel>> >>
           /\ serialOut[1][2] \in (0 - 8192)..8191
           /\ (ev.data1 = 0 /\ ev.data2 = 64) => serialOut[1][2] = 0

\* C11 witness: the centre position has been forwarded with the value 0.
C11_Witness ==
    /\ ev = Event(MIDI_STATUS_PITCHBEND, 1, 0, 64)
    /\ serialOut = << <<"sendPitchBend", 0, 1>> >>

\* a button is pressed in the step: its stored level goes from HIGH to LOW
Pressed(i) == ButtonStatus[i] = HIGH /\ ButtonStatus'[i] = LOW

\* C12: an iteration that reads an event of a type without a case (polyphonic
\* aftertouch) calls neither SetPort nor any output and leaves the select
\* lines, the USB flag, the note entries and the sustain entries unchanged;
\* the mask changes in it only if the button poll of the same iteration finds
\* a button pressed.
C12_UnrecognizedIgnored ==
    [][ev'.type = MIDI_STATUS_AFTERTOUCH
         => /\ setPortArg' = << >>
            /\ serialOut' = << >>
            /\ usbOut' = << >>
            /\ MuxPins' = MuxPins
            /\ USBPort' = USBPort
            /\ NoteMem' = NoteMem
            /\ SustainPedal' = SustainPedal
            /\ (\A i \in Buttons : ~Pressed(i)) => PortStatus' = PortStatus]_vars

\* C12 witness: polyphonic aftertouch read while the USB flag is set, a note
\* and the pedal are held and the select lines differ from the mask: nothing
\* was sent and the lines still differ.
C12_Witness ==
    /\ ev.type = MIDI_STATUS_AFTERTOUCH
    /\ ButtonStatus = AllReleased
    /\ serialOut = << >>
    /\ usbOut = << >>
    /\ USBPort = 1
    /\ PortStatus = 0
    /\ MuxPins = SetPortMux(1)
    /\ NoteMem[FirstNote].Status = 1
    /\ SustainPedal[0].Status = 1

\* C13: a Note-On for a note, whatever the entry of the note held, leaves the
\* entry active with the mask as it was when the event was read, and SetPort
\* is called once for it, with that same mask, even if the button poll of the
\* same iteration changes the mask.
C13_NoteOnCapturesAndRoutesSameMask ==
    [][\A n \in Notes :
          (ev'.type = MIDI_STATUS_NOTEON /\ ev'.data1 = n)
          => /\ NoteMem'[n] = [Status |-> 1, Port |-> PortStatus]
             /\ setPortArg' = <<NoteMem'[n].Port>>
             /\ MuxPins' = SetPortMux(NoteMem'[n].Port)
             /\ serialOut' = << <<"sendNoteOn", n, ev'.data2, ev'.channel>> >>]_vars

\* C13 witness: a Note-On for a note that was already held with another mask,
\* and a button pressed in the same iteration: the entry and the SetPort
\* argument are both the mask before the press.
C13_Witness ==
    /\ ev.type = MIDI_STATUS_NOTEON
    /\ hNote[ev.data1].retrig = 1
    /\ NoteMem[ev.data1] = [Status |-> 1, Port |-> 1]
    /\ setPortArg = <<1>>
    /\ PortStatus = 3
    /\ ButtonStatus[1] = LOW

\* C14: in every step, bit i of the mask (i = 0..3) changes exactly when the
\* poll reads LOW for button i while its stored level is HIGH; the bits 4..7
\* never change; a step without such a press (release, same level, no poll)
\* changes neither the mask nor the byte in the non-volatile store; a button
\* read LOW again while its stored level is LOW leaves its bit alone.
C14_PressTogglesOnce ==
    [][/\ \A i \in Buttons :
            (Bit(PortStatus', i) # Bit(PortStatus, i)) <=> Pressed(i)
       /\ \A i \in 4..7 : Bit(PortStatus', i) = Bit(PortStatus, i)
       /\ (\A i \in Buttons : ~Pressed(i))
            => (PortStatus' = PortStatus /\ eeprom' = eeprom)
       /\ \A i \in Buttons :
            (ButtonStatus[i] = LOW /\ ButtonStatus'[i] = LOW)
            => Bit(PortStatus', i) = Bit(PortStatus, i)]_vars

\* C14 witness: button 2 is still held from its press at mask 0 while button 0
\* was pressed and released in later polls: bit 2 was toggled once.
C14_Witness ==
    /\ ButtonStatus = [AllReleased EXCEPT ![2] = LOW]
    /\ hBtn = [btn |-> 0, mask |-> 4, n |-> 1]
    /\ PortStatus = 5
    /\ eeprom = 5

\* C15: an iteration of loop() that reads no event, whatever its button poll
\* does, leaves the note entries, the sustain entries, the select lines and
\* the USB flag unchanged; in any iteration a note entry changes only for a
\* note event of that note and a sustain entry only for a CC#64; the select
\* lines and the USB flag change only when SetPort is called, to its argument.
C15_PollLeavesRoutingState ==
    [][hStep' = "loop"
         => /\ ev' = NoEvent
                 => /\ NoteMem' = NoteMem
                    /\ SustainPedal' = SustainPedal
                    /\ MuxPins' = MuxPins
                    /\ USBPort' = USBPort
            /\ \A n \in Notes :
                 NoteMem'[n] # NoteMem[n] => (IsNote(ev') /\ ev'.data1 = n)
            /\ SustainPedal' # SustainPedal => IsSustain(ev')
            /\ setPortArg' = << >> => (MuxPins' = MuxPins /\ USBPort' = USBPort)
            /\ setPortArg' # << >>
                 => /\ MuxPins' = SetPortMux(setPortArg'[1])
                    /\ USBPort' = SetPortUSB(setPortArg'[1])]_vars

\* C15 witness: the note played at mask 1 has been released, the button is
\* held down from the press that made the mask 0, and an iteration without
\* event has run: the select lines and the USB flag are still those of mask 1.
C15_Witness ==
    /\ hStep = "loop"
    /\ ev = NoEvent
    /\ ButtonStatus[0] = LOW
    /\ PortStatus = 0
    /\ hNote[FirstNote].mask = 1
    /\ ~hNote[FirstNote].held
    /\ NoteMem[FirstNote] = [Status |-> 0, Port |-> 1]
    /\ MuxPins = SetPortMux(1)
    /\ USBPort = 1

\* C16: in every state the mask is in 0..15, and so is the mask stored in
\* every note entry and every sustain entry.
C16_MaskIsFourBits ==
    /\ PortStatus \in 0..15
    /\ \A n \in Notes : NoteMem[n].Port \in 0..15
    /\ \A c \in DOMAIN SustainPedal : SustainPedal[c].Port \in 0..15

\* What the code keeps instead: the bits 4..7 of the mask are those of the
\* byte found in the store, which holds the mask.
HighBitsFromStore ==
    \A i \in 4..7 : Bit(PortStatus, i) = Bit(eeprom, i)

\* C17: between two iterations of loop(), and right after setup(), the level
\* of status LED i is bit i of the mask.
C17_LedsShowMask ==
    \A i \in Buttons : ButtonLeds[i] = Bit(PortStatus, i)

\* C17 witness: setup() has just restored a mask that button presses left in
\* the store, and the LEDs show it.
C17_Witness ==
    /\ hStep = "setup"
    /\ PortStatus = 250
    /\ ButtonLeds = [i \in Buttons |-> IF i \in {1, 3} THEN HIGH ELSE LOW]

\* C18: whenever the activity LED is off the one-shot timer is running; every
\* iteration that reads an event leaves the LED off and the timer running;
\* the LED goes from on to off only in an iteration that reads an event; and
\* if from some iteration on no event is read, then from some iteration on
\* the LED is on for good.
C18_ActivityLedComesBack ==
    /\ [](led0 = LOW => ActivityTimer)
    /\ [][ev' # NoEvent => (led0' = LOW /\ ActivityTimer')]_vars
    /\ [][(led0 = HIGH /\ led0' = LOW) => ev' # NoEvent]_vars
    /\ (<>[](ev = NoEvent) => <>[](led0 = HIGH))

\* C18 witness: a Note-On was read (the note is held), and after an iteration
\* without event the LED is on again and the timer has stopped.
C18_Witness ==
    /\ hStep = "loop"
    /\ ev = NoEvent
    /\ NoteMem[FirstNote].Status = 1
    /\ led0 = HIGH
    /\ ~ActivityTimer

\* C19: the entry of a note is active exactly when the latest event of the
\* note, on whatever channel, was a Note-On; a Note-Off for the note on any
\* channel is forwarded exactly when the entry is active, then after
\* SetPort(the mask at the latest Note-On of the note, whatever its channel),
\* with its own channel, and it clears the entry; otherwise nothing is sent
\* and no entry changes.
C19_NoteMemoryKeyedByNoteOnly ==
    [][\A n \in Notes :
          (ev'.type = MIDI_STATUS_NOTEOFF /\ ev'.data1 = n)
          => /\ (NoteMem[n].Status # 0) <=> hNote[n].held
             /\ (serialOut' # << >>) <=> (NoteMem[n].Status # 0)
             /\ NoteMem[n].Status # 0
                  => /\ NoteMem[n].Port = hNote[n].mask
                     /\ setPortArg' = <<hNote[n].mask>>
                     /\ serialOut' = <<NoteOffCall(ev')>>
                     /\ NoteMem'[n].Status = 0
             /\ NoteMem[n].Status = 0
                  => /\ setPortArg' = << >>
                     /\ usbOut' = << >>
                     /\ NoteMem' = NoteMem]_vars

\* C19 witness: the Note-On came on channel 1 at mask 1; the Note-Off on
\* channel 16 has been forwarded after SetPort(1) while the mask is 0, and
\* the entry is cleared.
C19_Witness ==
    /\ ev.type = MIDI_STATUS_NOTEOFF
    /\ ev.channel = NumChannels
    /\ hNote[ev.data1].chan = 1
    /\ hNote[ev.data1].mask = 1
    /\ PortStatus = 0
    /\ setPortArg = <<1>>
    /\ serialOut = <<NoteOffCall(ev)>>
    /\ NoteMem[ev.data1].Status = 0

====
